---- MODULE Spec2Model ----
(***************************************************************************)
(* Model of the inference path of the fraud-detection services:            *)
(*   validate_transaction_payload.py  (validate_request)                   *)
(*   score_transaction_payload.py     (score_transaction_request)          *)
(*   load_fraud_model_artifact.py     (load_scoring_parameters)            *)
(*                                                                         *)
(* JSON values are records [t, s, n, d, b]: t is the Python type of the    *)
(* decoded value, s the text of a str (a sequence of characters; an        *)
(* ISO-8601 timestamp is written as a sequence of lexical chunks), n/d the *)
(* value of a number as a fraction (d = 0 is float NaN), b a bool.         *)
(***************************************************************************)
EXTENDS Integers, Sequences, FiniteSets, TLC

VARIABLES
    payload,        \* the request the client is preparing, then the one sent
    tz,             \* UTC offset of the local time zone validate_request ran in
    pc,             \* "client", "validated", "revalidated" or "scored"
    edits,          \* changes made to the sample request so far
    vres,           \* what validate_request returned (or raised)
    prevNorm,       \* the normalized record fed back to validate_request
    sres,           \* what score_transaction_request returned (or raised)
    _CACHED_PARAMS, \* the module global of load_fraud_model_artifact.py
    tmpFile,        \* /tmp/fraud_scoring_parameters_latest.json
    loadEnv,        \* the artifact sources the concurrent callers find
    lpc,            \* where each concurrent caller of load_scoring_parameters is
    lval,           \* what each caller's json.loads gave
    lret,           \* what load_scoring_parameters returned to each caller
    reads,          \* how many times an artifact file has been read and parsed
    assigns         \* how many times _CACHED_PARAMS has been assigned

requestVars == <<payload, tz, pc, edits, vres, prevNorm, sres>>
loadVars == <<loadEnv, lpc, lval, lret>>

vars == <<payload, tz, pc, edits, vres, prevNorm, sres, _CACHED_PARAMS, tmpFile,
          loadEnv, lpc, lval, lret, reads, assigns>>

\* Number of changes a client makes to the sample request before sending it.
MaxEdits == 2

\* Number of threads of one process that call load_scoring_parameters.
MaxLoaders == 2

-----------------------------------------------------------------------------
(* JSON values *)

V(t, s, n, d, b) == [t |-> t, s |-> s, n |-> n, d |-> d, b |-> b]

Str(s)      == V("str", s, 0, 1, FALSE)
IntV(n)     == V("int", <<>>, n, 1, FALSE)
FloatV(n,d) == V("float", <<>>, n, d, FALSE)
BoolV(b)    == V("bool", <<>>, 0, 1, b)
NaN         == V("float", <<>>, 0, 0, FALSE)
Null        == V("NoneType", <<>>, 0, 1, FALSE)
ListV       == V("list", <<>>, 0, 1, FALSE)
DictV       == V("dict", <<>>, 0, 1, FALSE)
Absent      == V("absent", <<>>, 0, 1, FALSE)

\* isinstance(v, str), isinstance(v, bool)
IsStr(v)  == v.t = "str"
IsBool(v) == v.t = "bool"
\* isinstance(v, int): bool is a subclass of int in Python
IsInt(v)  == v.t \in {"int", "bool"}
\* isinstance(v, (int, float))
IsIntOrFloat(v) == v.t \in {"int", "bool", "float"}

\* The integer a Python int (or bool) compares as.
IntOf(v) == IF v.t = "bool" THEN (IF v.b THEN 1 ELSE 0) ELSE v.n

Abs(x) == IF x < 0 THEN -x ELSE x

RECURSIVE Gcd(_, _)
Gcd(a, b) == IF b = 0 THEN a ELSE Gcd(b, a % b)

\* A float with value n/d, in lowest terms.
Frac(n, d) ==
    LET g == Gcd(Abs(n), Abs(d))
        sg == IF d < 0 THEN -1 ELSE 1
    IN  IF d = 0 THEN NaN ELSE FloatV(sg * (n \div g), sg * (d \div g))

\* float(v) for v an int, bool or float
ToFloat(v) == IF v.t = "float" THEN v ELSE FloatV(IntOf(v), 1)

-----------------------------------------------------------------------------
(* Text *)

Lowers == <<"a","b","c","d","e","f","g","h","i","j","k","l","m",
            "n","o","p","q","r","s","t","u","v","w","x","y","z">>
Uppers == <<"A","B","C","D","E","F","G","H","I","J","K","L","M",
            "N","O","P","Q","R","S","T","U","V","W","X","Y","Z">>

IsUpperChar(c) == \E i \in 1..26 : Uppers[i] = c
IsLowerChar(c) == \E i \in 1..26 : Lowers[i] = c

UpperChar(c) == IF IsLowerChar(c) THEN Uppers[CHOOSE i \in 1..26 : Lowers[i] = c] ELSE c
LowerChar(c) == IF IsUpperChar(c) THEN Lowers[CHOOSE i \in 1..26 : Uppers[i] = c] ELSE c

\* str.upper(), str.lower()
upper(s) == [i \in 1..Len(s) |-> UpperChar(s[i])]
lower(s) == [i \in 1..Len(s) |-> LowerChar(s[i])]

RECURSIVE lstrip(_)
lstrip(s) == IF s # <<>> /\ Head(s) = " " THEN lstrip(Tail(s)) ELSE s

RECURSIVE rstrip(_)
rstrip(s) == IF s # <<>> /\ s[Len(s)] = " " THEN rstrip(SubSeq(s, 1, Len(s) - 1)) ELSE s

\* str.strip()
strip(s) == rstrip(lstrip(s))

\* str.replace(old, new) for a one-chunk old and new
replace(s, old, new) == [i \in 1..Len(s) |-> IF s[i] = old THEN new ELSE s[i]]

-----------------------------------------------------------------------------
(* validate_transaction_payload.py *)

None == Null

\* ValidationErrorItem(field, message)
ValidationErrorItem(field, message) == [field |-> field, message |-> message]

S_card_present     == <<"c","a","r","d","_","p","r","e","s","e","n","t">>
S_card_not_present == <<"c","a","r","d","_","n","o","t","_","p","r","e","s","e","n","t">>
S_online           == <<"o","n","l","i","n","e">>
S_atm              == <<"a","t","m">>
S_transfer         == <<"t","r","a","n","s","f","e","r">>

_ALLOWED_CHANNELS == {S_card_present, S_card_not_present, S_online, S_atm, S_transfer}

\* re.compile(r"^[A-Z]{3}$").match(s); s has been stripped, so the newline
\* that "$" tolerates cannot be there
_CURRENCY_RE(s) == Len(s) = 3 /\ \A i \in 1..Len(s) : IsUpperChar(s[i])

\* re.compile(r"^[A-Z]{2}$").match(s)
_COUNTRY_RE(s) == Len(s) = 2 /\ \A i \in 1..Len(s) : IsUpperChar(s[i])

_REQUIRED_TRANSACTION_FIELDS ==
    << "transaction_id", "event_time_utc", "amount", "currency",
       "merchant_category", "channel", "country", "customer_age",
       "account_age_days", "transactions_last_24h", "avg_amount_last_7d",
       "is_international" >>

RequiredSet == { _REQUIRED_TRANSACTION_FIELDS[i] : i \in 1..Len(_REQUIRED_TRANSACTION_FIELDS) }

(* Timestamps.  The date-and-time part of an ISO-8601 text is one chunk, an  *)
(* optional fraction of a second is one chunk and the UTC offset is one      *)
(* chunk; the clock has the five hours below, 19:15 to 23:15.                 *)
DateTimeChunks == << "2026-01-05T19:15:00", "2026-01-05T20:15:00", "2026-01-05T21:15:00",
                     "2026-01-05T22:15:00", "2026-01-05T23:15:00" >>
FractionChunks == {".250000"}
OffsetChunks == {"+00:00", "+01:00", "-01:00"}

IsDateTimeChunk(c) == \E i \in 1..Len(DateTimeChunks) : DateTimeChunks[i] = c
HourOfChunk(c) == 18 + (CHOOSE i \in 1..Len(DateTimeChunks) : DateTimeChunks[i] = c)
ChunkOfHour(h) == DateTimeChunks[h - 18]
OffsetHours(c) == CASE c = "+00:00" -> 0 [] c = "+01:00" -> 1 [] c = "-01:00" -> -1

\* datetime.fromisoformat(s): [ok, hour, micro, aware, off]; ok = FALSE is ValueError
fromisoformat(s) ==
    LET bad == [ok |-> FALSE, hour |-> 0, micro |-> FALSE, aware |-> FALSE, off |-> 0]
        dt(mi, aw, of) == [ok |-> TRUE, hour |-> HourOfChunk(s[1]), micro |-> mi,
                           aware |-> aw, off |-> of]
    IN  IF Len(s) = 0 \/ Len(s) > 3 THEN bad
        ELSE IF ~IsDateTimeChunk(s[1]) THEN bad
        ELSE IF Len(s) = 1 THEN dt(FALSE, FALSE, 0)
        ELSE IF Len(s) = 2 /\ s[2] \in FractionChunks THEN dt(TRUE, FALSE, 0)
        ELSE IF Len(s) = 2 /\ s[2] \in OffsetChunks THEN dt(FALSE, TRUE, OffsetHours(s[2]))
        ELSE IF Len(s) = 3 /\ s[2] \in FractionChunks /\ s[3] \in OffsetChunks
             THEN dt(TRUE, TRUE, OffsetHours(s[3]))
        ELSE bad

\* Variant of astimezone_utc: every datetime is taken as local time
astimezone_utc_local(dt, localUtcOffset) ==
    [dt EXCEPT !.hour = dt.hour - localUtcOffset, !.aware = TRUE, !.off = 0]

\* dt.astimezone(timezone.utc): a naive datetime is taken as local time,
\* localUtcOffset hours ahead of UTC
astimezone_utc(dt, localUtcOffset) ==
    [dt EXCEPT !.hour = dt.hour - (IF dt.aware THEN dt.off ELSE localUtcOffset),
               !.aware = TRUE, !.off = 0]

\* dt.replace(microsecond=0).isoformat() of a UTC datetime
isoformat_seconds(dt) == << ChunkOfHour(dt.hour), "+00:00" >>

\* _parse_utc_datetime(value): [ok, s]; ok = FALSE is the None result
_parse_utc_datetime(value, localUtcOffset) ==
    LET text == IF value # <<>> /\ value[Len(value)] = "Z"
                THEN replace(value, "Z", "+00:00")
                ELSE value
        dt == fromisoformat(text)
    IN  IF ~dt.ok THEN [ok |-> FALSE, s |-> <<>>]
        ELSE [ok |-> TRUE,
              s |-> replace(isoformat_seconds(astimezone_utc(dt, localUtcOffset)), "+00:00", "Z")]

\* Variant of _validate_top_level: the type of "transaction" is not looked at
_validate_top_level_anytype(p) ==
    IF p.t # "dict"
    THEN << [field |-> "request", message |-> "request must be a JSON object"] >>
    ELSE IF p.transaction.t = "absent"
    THEN << [field |-> "transaction", message |-> "Missing required field: transaction"] >>
    ELSE << >>

\* _validate_top_level(payload)
_validate_top_level(p) ==
    IF p.t # "dict"
    THEN << ValidationErrorItem("request", "request must be a JSON object") >>
    ELSE IF p.transaction.t = "absent"
    THEN << ValidationErrorItem("transaction", "Missing required field: transaction") >>
    ELSE IF p.transaction.t # "dict"
    THEN << ValidationErrorItem("transaction", "transaction must be an object") >>
    ELSE << >>

\* Variant of RequiredFieldsPresence: the loop stops at the first missing field
RECURSIVE RequiredFieldsPresence_break(_, _)
RequiredFieldsPresence_break(normalized, i) ==
    IF i > Len(_REQUIRED_TRANSACTION_FIELDS) THEN << >>
    ELSE LET f == _REQUIRED_TRANSACTION_FIELDS[i]
         IN  IF f \notin DOMAIN normalized
             THEN << [field |-> "transaction." \o f, message |-> "Missing required field: " \o f] >>
             ELSE RequiredFieldsPresence_break(normalized, i + 1)

\* The loop over _REQUIRED_TRANSACTION_FIELDS, from position i on
RECURSIVE RequiredFieldsPresence(_, _)
RequiredFieldsPresence(normalized, i) ==
    IF i > Len(_REQUIRED_TRANSACTION_FIELDS) THEN << >>
    ELSE LET f == _REQUIRED_TRANSACTION_FIELDS[i]
         IN  (IF f \notin DOMAIN normalized
              THEN << ValidationErrorItem("transaction." \o f, "Missing required field: " \o f) >>
              ELSE << >>)
             \o RequiredFieldsPresence(normalized, i + 1)

(* Each block of the content phase takes and returns [normalized, errors]. *)
AddError(st, f, message) ==
    [st EXCEPT !.errors = Append(@, ValidationErrorItem("transaction." \o f, message))]

SetField(st, f, v) == [st EXCEPT !.normalized[f] = v]

check_transaction_id(st) ==
    LET v == st.normalized["transaction_id"]
    IN  IF ~IsStr(v) \/ strip(v.s) = <<>>
        THEN AddError(st, "transaction_id", "transaction_id must be a non-empty string")
        ELSE SetField(st, "transaction_id", Str(strip(v.s)))

check_event_time_utc(st, localUtcOffset) ==
    LET v == st.normalized["event_time_utc"]
        parsed == _parse_utc_datetime(strip(v.s), localUtcOffset)
    IN  IF ~IsStr(v)
        THEN AddError(st, "event_time_utc", "event_time_utc must be a string")
        ELSE IF ~parsed.ok
        THEN AddError(st, "event_time_utc",
                      "event_time_utc must be ISO 8601 (e.g., 2026-01-05T21:15:00Z)")
        ELSE SetField(st, "event_time_utc", Str(parsed.s))

\* float(v) <= 0 and float(v) < 0; every comparison with NaN is false
FloatLeqZero(v) == ToFloat(v).d # 0 /\ ToFloat(v).n <= 0
FloatLtZero(v)  == ToFloat(v).d # 0 /\ ToFloat(v).n < 0

check_amount(st) ==
    LET v == st.normalized["amount"]
        st1 == IF FloatLeqZero(v) THEN AddError(st, "amount", "amount must be > 0") ELSE st
    IN  IF ~IsIntOrFloat(v)
        THEN AddError(st, "amount", "amount must be a number")
        ELSE SetField(st1, "amount", ToFloat(v))

check_currency(st) ==
    LET v == st.normalized["currency"]
        s == upper(strip(v.s))
        st1 == SetField(st, "currency", Str(s))
    IN  IF ~IsStr(v)
        THEN AddError(st, "currency", "currency must be a string")
        ELSE IF ~_CURRENCY_RE(s)
        THEN AddError(st1, "currency", "currency must be a 3-letter uppercase code (e.g., CAD)")
        ELSE st1

check_merchant_category(st) ==
    LET v == st.normalized["merchant_category"]
        s == lower(strip(v.s))
        st1 == SetField(st, "merchant_category", Str(s))
    IN  IF ~IsStr(v)
        THEN AddError(st, "merchant_category", "merchant_category must be a string")
        ELSE IF s = <<>>
        THEN AddError(st1, "merchant_category", "merchant_category must not be empty")
        ELSE st1

check_channel(st) ==
    LET v == st.normalized["channel"]
        s == lower(strip(v.s))
        st1 == SetField(st, "channel", Str(s))
    IN  IF ~IsStr(v)
        THEN AddError(st, "channel", "channel must be a string")
        ELSE IF s \notin _ALLOWED_CHANNELS
        THEN AddError(st1, "channel",
               "channel must be one of: ['atm', 'card_not_present', 'card_present', 'online', 'transfer']")
        ELSE st1

check_country(st) ==
    LET v == st.normalized["country"]
        s == upper(strip(v.s))
        st1 == SetField(st, "country", Str(s))
    IN  IF ~IsStr(v)
        THEN AddError(st, "country", "country must be a string")
        ELSE IF ~_COUNTRY_RE(s)
        THEN AddError(st1, "country", "country must be a 2-letter uppercase code (e.g., CA)")
        ELSE st1

check_customer_age(st) ==
    LET v == st.normalized["customer_age"]
    IN  IF ~IsInt(v)
        THEN AddError(st, "customer_age", "customer_age must be an integer")
        ELSE IF ~(13 <= IntOf(v) /\ IntOf(v) <= 120)
        THEN AddError(st, "customer_age", "customer_age must be between 13 and 120")
        ELSE st

check_account_age_days(st) ==
    LET v == st.normalized["account_age_days"]
    IN  IF ~IsInt(v)
        THEN AddError(st, "account_age_days", "account_age_days must be an integer")
        ELSE IF IntOf(v) < 0
        THEN AddError(st, "account_age_days", "account_age_days must be >= 0")
        ELSE st

check_transactions_last_24h(st) ==
    LET v == st.normalized["transactions_last_24h"]
    IN  IF ~IsInt(v)
        THEN AddError(st, "transactions_last_24h", "transactions_last_24h must be an integer")
        ELSE IF IntOf(v) < 0
        THEN AddError(st, "transactions_last_24h", "transactions_last_24h must be >= 0")
        ELSE st

check_avg_amount_last_7d(st) ==
    LET v == st.normalized["avg_amount_last_7d"]
        st1 == IF FloatLtZero(v)
               THEN AddError(st, "avg_amount_last_7d", "avg_amount_last_7d must be >= 0")
               ELSE st
    IN  IF ~IsIntOrFloat(v)
        THEN AddError(st, "avg_amount_last_7d", "avg_amount_last_7d must be a number")
        ELSE SetField(st1, "avg_amount_last_7d", ToFloat(v))

\* Variant of check_is_international: skipped once an error has been found
check_is_international_elif(st) ==
    IF st.errors # << >> THEN st
    ELSE IF ~IsBool(st.normalized["is_international"])
    THEN AddError(st, "is_international", "is_international must be a boolean")
    ELSE st

check_is_international(st) ==
    LET v == st.normalized["is_international"]
    IN  IF ~IsBool(v)
        THEN AddError(st, "is_international", "is_international must be a boolean")
        ELSE st

\* The content phase: the twelve blocks in source order
ContentChecks(st, localUtcOffset) ==
    check_is_international(
    check_avg_amount_last_7d(
    check_transactions_last_24h(
    check_account_age_days(
    check_customer_age(
    check_country(
    check_channel(
    check_merchant_category(
    check_currency(
    check_amount(
    check_event_time_utc(
    check_transaction_id(st), localUtcOffset)))))))))))

\* _normalize_and_validate_transaction(txn): the pair (normalized or None, errors)
_normalize_and_validate_transaction(txn, localUtcOffset) ==
    LET missing == RequiredFieldsPresence(txn, 1)
        st == ContentChecks([normalized |-> txn, errors |-> << >>], localUtcOffset)
    IN  IF missing # << >>
        THEN [normalized |-> None, errors |-> missing]
        ELSE [normalized |-> IF st.errors = << >> THEN st.normalized ELSE None,
              errors |-> st.errors]

\* payload.get("request_id") if isinstance(payload.get("request_id"), str) else None,
\* then req_id or str(uuid.uuid4()); the empty str is falsy
RequestIdOf(p, uuid4) ==
    LET req_id == IF IsStr(p.request_id) THEN p.request_id ELSE None
    IN  IF req_id = None \/ req_id.s = << >> THEN uuid4 ELSE req_id

Raised(exc) ==
    [status |-> "raised", exc |-> exc, request_id |-> None, is_valid |-> FALSE,
     normalized_transaction |-> None, validation_errors |-> << >>]

\* Variant of validate_request: "is None" for "is not None"
validate_request_isnone(p, uuid4, localUtcOffset) ==
    LET request_id == RequestIdOf(p, uuid4)
        top_errors == _validate_top_level(p)
        r == _normalize_and_validate_transaction(p.txn, localUtcOffset)
        is_valid == r.normalized = None /\ r.errors = << >>
    IN  IF p.t # "dict" THEN Raised("AttributeError")
        ELSE IF top_errors # << >>
        THEN [status |-> "returned", exc |-> "", request_id |-> request_id,
              is_valid |-> FALSE, normalized_transaction |-> None,
              validation_errors |-> top_errors]
        ELSE [status |-> "returned", exc |-> "", request_id |-> request_id,
              is_valid |-> is_valid,
              normalized_transaction |-> IF is_valid THEN r.normalized ELSE None,
              validation_errors |-> r.errors]

\* validate_request(payload); payload.get raises AttributeError on a non-dict
validate_request(p, uuid4, localUtcOffset) ==
    LET request_id == RequestIdOf(p, uuid4)
        top_errors == _validate_top_level(p)
        r == _normalize_and_validate_transaction(p.txn, localUtcOffset)
        is_valid == r.normalized # None /\ r.errors = << >>
    IN  IF p.t # "dict" THEN Raised("AttributeError")
        ELSE IF top_errors # << >>
        THEN [status |-> "returned", exc |-> "", request_id |-> request_id,
              is_valid |-> FALSE, normalized_transaction |-> None,
              validation_errors |-> top_errors]
        ELSE [status |-> "returned", exc |-> "", request_id |-> request_id,
              is_valid |-> is_valid,
              normalized_transaction |-> IF is_valid THEN r.normalized ELSE None,
              validation_errors |-> r.errors]

-----------------------------------------------------------------------------
(* Requests.  A payload is what json.loads (or a direct invocation) hands to *)
(* validate_request or score_transaction_request: t is its Python type and, *)
(* for a dict, request_id and transaction are the values of those keys       *)
(* (Absent: no such key) and txn the content of a dict-valued transaction.   *)

EmptyTxn == [k \in {} |-> Null]

Envelope(t, request_id, transaction, txn) ==
    [t |-> t, request_id |-> request_id, transaction |-> transaction, txn |-> txn]

T2115 == "2026-01-05T21:15:00"

\* The request of the sample: every required field present and valid, text
\* fields not yet in canonical case
SampleTxn ==
    [ transaction_id        |-> Str(<<"t","1">>),
      event_time_utc        |-> Str(<<T2115, "Z">>),
      amount                |-> FloatV(241, 2),
      currency              |-> Str(<<"c","a","d">>),
      merchant_category     |-> Str(<<"G","r","o","c","e","r","y">>),
      channel               |-> Str(<<"C","a","r","d","_","P","r","e","s","e","n","t">>),
      country               |-> Str(<<"c","a">>),
      customer_age          |-> IntV(34),
      account_age_days      |-> IntV(900),
      transactions_last_24h |-> IntV(2),
      avg_amount_last_7d    |-> FloatV(80, 1),
      is_international      |-> BoolV(FALSE) ]

SamplePayload == Envelope("dict", Absent, DictV, SampleTxn)

\* Values a client may put in a field of the transaction
FieldInputs(f) ==
    CASE f = "transaction_id" ->
           { Str(<<" ","t","2"," ">>), Str(<<" "," ">>), IntV(7) }
      [] f = "event_time_utc" ->
           { Str(<<T2115, "+01:00">>), Str(<<" ", T2115, ".250000">>),
             Str(<<"n","o","w">>), IntV(7) }
      [] f = "amount" ->
           { IntV(200), IntV(0), Str(<<"1","2">>), BoolV(TRUE) }
      [] f = "currency" ->
           { Str(<<" ","U","s","d">>), Str(<<"c","a">>), IntV(7) }
      [] f = "merchant_category" ->
           { Str(<<" ","F","u","e","l">>), Str(<<" ">>), ListV }
      [] f = "channel" ->
           { Str(<<" ","A","T","M"," ">>), Str(<<"w","i","r","e">>), IntV(1) }
      [] f = "country" ->
           { Str(<<"U","s">>), Str(<<"c","a","n">>), Null }
      [] f = "customer_age" ->
           { IntV(13), IntV(12), IntV(121), BoolV(TRUE) }
      [] f = "account_age_days" ->
           { IntV(0), IntV(-1), BoolV(TRUE), FloatV(1, 2) }
      [] f = "transactions_last_24h" ->
           { IntV(-1), BoolV(FALSE), Null }
      [] f = "avg_amount_last_7d" ->
           { IntV(0), FloatV(-1, 2), Str(<<"8","0">>), Str(<<"n","a">>) }
      [] f = "is_international" ->
           { BoolV(TRUE), IntV(1), Null }

\* A key the schema does not know
ExtraKey == "note"

RequestIdInputs == { Str(<<"r","1">>), Str(<< >>), IntV(7) }
TransactionInputs == { Absent, Null, ListV }
PayloadTypes == { "list", "NoneType" }

\* str(uuid.uuid4())
Uuid4 == { Str(<<"uuid4">>) }

\* UTC offset of the process's local time zone, in hours
LocalUtcOffsets == { 0, 1 }

NoResult == Raised("")

-----------------------------------------------------------------------------
(* score_transaction_payload.py, load_fraud_model_artifact.py *)

\* float arithmetic on fractions; NaN (d = 0) is contagious
FSub(a, b) == IF a.d = 0 \/ b.d = 0 THEN NaN ELSE Frac(a.n * b.d - b.n * a.d, a.d * b.d)
FAdd(a, b) == IF a.d = 0 \/ b.d = 0 THEN NaN ELSE Frac(a.n * b.d + b.n * a.d, a.d * b.d)
FMul(a, b) == IF a.d = 0 \/ b.d = 0 THEN NaN ELSE Frac(a.n * b.n, a.d * b.d)
FDiv(a, b) == IF a.d = 0 \/ b.d = 0 THEN NaN ELSE Frac(a.n * b.d, a.d * b.n)

Zero == FloatV(0, 1)
One  == FloatV(1, 1)

\* _standardize(value, mean, scale)
_standardize(value, mean, scale) ==
    IF scale.d # 0 /\ scale.n = 0 THEN Zero ELSE FDiv(FSub(value, mean), scale)

IsDigit(c) == c \in {"0","1","2","3","4","5","6","7","8","9"}
DigitVal(c) == CASE c = "0" -> 0 [] c = "1" -> 1 [] c = "2" -> 2 [] c = "3" -> 3 [] c = "4" -> 4
                 [] c = "5" -> 5 [] c = "6" -> 6 [] c = "7" -> 7 [] c = "8" -> 8 [] c = "9" -> 9

RECURSIVE DecimalValue(_)
DecimalValue(s) == IF s = << >> THEN 0
                   ELSE 10 * DecimalValue(SubSeq(s, 1, Len(s) - 1)) + DigitVal(s[Len(s)])

\* float(text): surrounding blanks are ignored; of the texts of the inputs
\* only the ones made of decimal digits are numbers
IsNumericText(s) == strip(s) # << >> /\ \A i \in 1..Len(strip(s)) : IsDigit(strip(s)[i])

\* _to_float(v, default): float(v), or default when float(v) raises
_to_float(v, default) ==
    IF IsIntOrFloat(v) THEN ToFloat(v)
    ELSE IF IsStr(v) /\ IsNumericText(v.s) THEN FloatV(DecimalValue(strip(v.s)), 1)
    ELSE default

\* Python's ==  between two JSON values
PyEq(a, b) ==
    IF IsIntOrFloat(a) /\ IsIntOrFloat(b)
    THEN ToFloat(a).d # 0 /\ ToFloat(b).d # 0 /\ ToFloat(a) = ToFloat(b)
    ELSE IF IsStr(a) /\ IsStr(b) THEN a.s = b.s
    ELSE a.t = "NoneType" /\ b.t = "NoneType"

\* txn.get(f, default)
Get(txn, f, default) == IF f \in DOMAIN txn THEN txn[f] ELSE default

\* Variant of NumericBlock: a value that float() rejects is appended as 0.0
\* without being standardized
RECURSIVE NumericBlock_raw(_, _, _)
NumericBlock_raw(txn, params, i) ==
    IF i > Len(params.numeric_features) THEN << >>
    ELSE LET v == Get(txn, params.numeric_features[i], Zero)
             x == _to_float(v, Zero)
         IN  << IF IsIntOrFloat(v) \/ (IsStr(v) /\ IsNumericText(v.s))
                THEN _standardize(x, ToFloat(params.mean[i]), ToFloat(params.scale[i]))
                ELSE Zero >>
             \o NumericBlock_raw(txn, params, i + 1)

\* the loop over numeric_features, from position i on
RECURSIVE NumericBlock(_, _, _)
NumericBlock(txn, params, i) ==
    IF i > Len(params.numeric_features) THEN << >>
    ELSE LET x == _to_float(Get(txn, params.numeric_features[i], Zero), Zero)
         IN  << _standardize(x, ToFloat(params.mean[i]), ToFloat(params.scale[i])) >>
             \o NumericBlock(txn, params, i + 1)

\* "Normalize common cases": the case-normalised value of categorical feature f
NormalizeCategorical(f, val) ==
    IF IsStr(val)
    THEN IF f \in {"currency", "country"} THEN Str(upper(strip(val.s)))
                                          ELSE Str(lower(strip(val.s)))
    ELSE val

\* Variant of OneHot: a value outside the vocabulary appends nothing
OneHot_skip(val, cats) ==
    IF \E j \in 1..Len(cats) : PyEq(val, cats[j])
    THEN [j \in 1..Len(cats) |-> IF PyEq(val, cats[j]) THEN One ELSE Zero]
    ELSE << >>

\* for c in cats: vec.append(1.0 if val == c else 0.0)
OneHot(val, cats) == [j \in 1..Len(cats) |-> IF PyEq(val, cats[j]) THEN One ELSE Zero]

\* the loop over categorical_features, from position i on
RECURSIVE CategoricalBlocks(_, _, _)
CategoricalBlocks(txn, params, i) ==
    IF i > Len(params.categorical_features) THEN << >>
    ELSE LET f == params.categorical_features[i]
             cats == IF f \in DOMAIN params.one_hot_categories
                     THEN params.one_hot_categories[f] ELSE << >>
             val == NormalizeCategorical(f, Get(txn, f, None))
         IN  OneHot(val, cats) \o CategoricalBlocks(txn, params, i + 1)

\* _build_feature_vector(txn, params)
_build_feature_vector(txn, params) ==
    NumericBlock(txn, params, 1) \o CategoricalBlocks(txn, params, 1)

\* sum(float(w) * float(v) for w, v in zip(coef, x)), from position i on
RECURSIVE Dot(_, _, _)
Dot(coef, x, i) ==
    IF i > Len(coef) \/ i > Len(x) THEN Zero
    ELSE FAdd(FMul(coef[i], x[i]), Dot(coef, x, i + 1))

\* round(_sigmoid(logit), 6), kept as the logit it is the sigmoid of
Sigmoid6(logit) == V("sigmoid6", << >>, logit.n, logit.d, FALSE)

\* int(_sigmoid(logit) >= threshold) for the thresholds 0, 1/2 and 1:
\* the sigmoid of a finite logit lies strictly between 0 and 1 and is
\* 1/2 at 0; a comparison with NaN is false
Label(logit, threshold) ==
    IF logit.d = 0 \/ threshold.d = 0 THEN 0
    ELSE IF threshold.n <= 0 THEN 1
    ELSE IF threshold.n >= threshold.d THEN 0
    ELSE IF logit.n >= 0 THEN 1 ELSE 0

NoError == [present |-> FALSE, message |-> "", got |-> 0, expected |-> 0]
ErrorText(message, got, expected) ==
    [present |-> TRUE, message |-> message, got |-> got, expected |-> expected]

ScoreRaised(exc) ==
    [status |-> "raised", exc |-> exc, request_id |-> None, fraud_probability |-> None,
     fraud_label |-> None, model_version |-> None, decision_threshold |-> None,
     error |-> NoError]

NoScore == ScoreRaised("")

\* The scoring parameters a source may hold
Cats_currency == << Str(<<"C","A","D">>), Str(<<"U","S","D">>) >>
Cats_channel  == << Str(S_atm), Str(S_card_present), Str(S_online) >>
Cats_bool     == << BoolV(FALSE), BoolV(TRUE) >>

Params(version, numeric, mean, scale, categorical, cats, coef, intercept) ==
    [ model_version |-> Str(<<version>>), decision_threshold |-> FloatV(1, 2),
      numeric_features |-> numeric, categorical_features |-> categorical,
      mean |-> mean, scale |-> scale, one_hot_categories |-> cats,
      coefficients |-> coef, intercept |-> intercept ]

ArtifactFull ==
    Params("v-full", <<"amount", "customer_age", "avg_amount_last_7d">>,
           <<IntV(100), IntV(40), IntV(80)>>, <<IntV(50), IntV(0), IntV(20)>>,
           <<"currency", "channel", "is_international">>,
           [currency |-> Cats_currency, channel |-> Cats_channel, is_international |-> Cats_bool],
           << FloatV(1, 50), FloatV(1, 1), FloatV(-1, 10), FloatV(1, 2), FloatV(-1, 2),
              FloatV(1, 4), FloatV(0, 1), FloatV(1, 5), FloatV(-1, 5), FloatV(3, 2) >>,
           FloatV(-1, 1))

ArtifactNumeric ==
    Params("v-numeric", <<"amount">>, <<IntV(100)>>, <<IntV(50)>>, << >>, EmptyTxn,
           << FloatV(1, 50) >>, FloatV(-1, 1))

\* a categorical feature the vocabulary map has no entry for
ArtifactNoVocabulary ==
    Params("v-novocab", <<"transactions_last_24h">>, <<IntV(1)>>, <<IntV(2)>>,
           <<"country", "is_international">>, [is_international |-> Cats_bool],
           << FloatV(1, 1), FloatV(2, 1), FloatV(-2, 1) >>, FloatV(0, 1))

\* encoder and coefficients have drifted apart
ArtifactDrift ==
    Params("v-drift", <<"amount">>, <<IntV(100)>>, <<IntV(50)>>,
           <<"channel">>, [channel |-> Cats_channel],
           << FloatV(1, 50), FloatV(1, 1) >>, FloatV(0, 1))

Artifacts == { ArtifactFull, ArtifactNumeric, ArtifactNoVocabulary, ArtifactDrift }

RECURSIVE SumVocabulary(_, _)
SumVocabulary(params, i) ==
    IF i > Len(params.categorical_features) THEN 0
    ELSE (IF params.categorical_features[i] \in DOMAIN params.one_hot_categories
          THEN Len(params.one_hot_categories[params.categorical_features[i]]) ELSE 0)
         + SumVocabulary(params, i + 1)

\* len(coefficients) == len(numeric_features) + sum(len(categories))
ArtifactInvariant(params) ==
    Len(params.coefficients) = Len(params.numeric_features) + SumVocabulary(params, 1)

(* The sources of the artifact: MODEL_BUCKET and MODEL_KEY set or not, the   *)
(* object downloadable or not, the local report file there or not, and       *)
(* the parameters the source holds.                                          *)
Env(bucket_and_key, downloadable, local_exists, content) ==
    [ bucket_and_key |-> bucket_and_key, downloadable |-> downloadable,
      local_exists |-> local_exists, content |-> content ]

\* what a request handler may find: the bucket with an object to download,
\* no source at all, or the local report file
Environments ==
    { Env(TRUE, TRUE, FALSE, ArtifactFull), Env(FALSE, FALSE, FALSE, ArtifactFull) }
    \cup { Env(FALSE, FALSE, TRUE, c) : c \in Artifacts }

\* what concurrent callers may find: the same, or a bucket whose object
\* cannot be downloaded
LoadEnvironments ==
    Environments \cup { Env(TRUE, FALSE, FALSE, ArtifactFull), Env(TRUE, TRUE, FALSE, ArtifactDrift) }

\* the environment is consulted only while nothing is cached
EnvironmentsFor(cache) ==
    IF cache # None THEN { Env(FALSE, FALSE, FALSE, ArtifactFull) } ELSE Environments

\* load_scoring_parameters(): [exc, params, cache, tmp]; cache and tmp are the
\* values of _CACHED_PARAMS and of the /tmp file afterwards
load_scoring_parameters(cache, tmp, env) ==
    IF cache # None
    THEN [exc |-> "", params |-> cache, cache |-> cache, tmp |-> tmp]
    ELSE IF env.bucket_and_key
    THEN IF tmp = None /\ ~env.downloadable
         THEN [exc |-> "ClientError", params |-> None, cache |-> cache, tmp |-> tmp]
         ELSE LET file == IF tmp = None THEN env.content ELSE tmp
              IN  [exc |-> "", params |-> file, cache |-> file, tmp |-> file]
    ELSE IF ~env.local_exists
    THEN [exc |-> "FileNotFoundError", params |-> None, cache |-> cache, tmp |-> tmp]
    ELSE [exc |-> "", params |-> env.content, cache |-> env.content, tmp |-> tmp]

\* Variant of score_transaction_request: the label is worked out before the
\* lengths are compared and is left in the mismatch result
score_transaction_request_label(p, uuid4, loaded) ==
    LET request_id == RequestIdOf(p, uuid4)
        params == loaded.params
        coef == params.coefficients
        threshold == ToFloat(params.decision_threshold)
        x == _build_feature_vector(p.txn, params)
        logit == FAdd(ToFloat(params.intercept), Dot(coef, x, 1))
    IN  IF p.t # "dict" THEN ScoreRaised("AttributeError")
        ELSE IF p.transaction.t # "dict"
        THEN [status |-> "returned", exc |-> "", request_id |-> request_id,
              fraud_probability |-> None, fraud_label |-> None, model_version |-> None,
              decision_threshold |-> None,
              error |-> ErrorText("Missing or invalid 'transaction' object", 0, 0)]
        ELSE IF loaded.exc # "" THEN ScoreRaised(loaded.exc)
        ELSE IF Len(x) # Len(coef)
        THEN [status |-> "returned", exc |-> "", request_id |-> request_id,
              fraud_probability |-> None, fraud_label |-> IntV(Label(logit, threshold)),
              model_version |-> params.model_version, decision_threshold |-> threshold,
              error |-> ErrorText("Feature length mismatch", Len(x), Len(coef))]
        ELSE [status |-> "returned", exc |-> "", request_id |-> request_id,
              fraud_probability |-> Sigmoid6(logit), fraud_label |-> IntV(Label(logit, threshold)),
              model_version |-> params.model_version, decision_threshold |-> threshold,
              error |-> NoError]

\* score_transaction_request(payload), given the outcome of load_scoring_parameters
score_transaction_request(p, uuid4, loaded) ==
    LET request_id == RequestIdOf(p, uuid4)
        params == loaded.params
        coef == params.coefficients
        threshold == ToFloat(params.decision_threshold)
        x == _build_feature_vector(p.txn, params)
        logit == FAdd(ToFloat(params.intercept), Dot(coef, x, 1))
    IN  IF p.t # "dict" THEN ScoreRaised("AttributeError")
        ELSE IF p.transaction.t # "dict"
        THEN [status |-> "returned", exc |-> "", request_id |-> request_id,
              fraud_probability |-> None, fraud_label |-> None, model_version |-> None,
              decision_threshold |-> None,
              error |-> ErrorText("Missing or invalid 'transaction' object", 0, 0)]
        ELSE IF loaded.exc # "" THEN ScoreRaised(loaded.exc)
        ELSE IF Len(x) # Len(coef)
        THEN [status |-> "returned", exc |-> "", request_id |-> request_id,
              fraud_probability |-> None, fraud_label |-> None,
              model_version |-> params.model_version, decision_threshold |-> threshold,
              error |-> ErrorText("Feature length mismatch", Len(x), Len(coef))]
        ELSE [status |-> "returned", exc |-> "", request_id |-> request_id,
              fraud_probability |-> Sigmoid6(logit), fraud_label |-> IntV(Label(logit, threshold)),
              model_version |-> params.model_version, decision_threshold |-> threshold,
              error |-> NoError]

-----------------------------------------------------------------------------
(* The state machine *)

Loaders == 1..MaxLoaders

\* no thread has called load_scoring_parameters, nothing has been read
LoadersIdle ==
    /\ lpc = [t \in Loaders |-> "idle"]
    /\ lval = [t \in Loaders |-> None]
    /\ lret = [t \in Loaders |-> None]
    /\ reads = 0
    /\ assigns = 0

Init ==
    /\ payload = SamplePayload
    /\ tz = 0
    /\ pc = "client"
    /\ edits = 0
    /\ vres = NoResult
    /\ prevNorm = None
    /\ sres = NoScore
    /\ _CACHED_PARAMS = None
    /\ tmpFile = None
    /\ loadEnv = Env(FALSE, FALSE, FALSE, ArtifactFull)
    /\ LoadersIdle

CanEdit == pc = "client" /\ edits < MaxEdits /\ payload.t = "dict"

Edited == /\ edits' = edits + 1
          /\ UNCHANGED <<tz, pc, vres, prevNorm, sres, _CACHED_PARAMS, tmpFile>>
          /\ UNCHANGED <<loadVars, reads, assigns>>

\* the client gives field f of the transaction the value v
EditField(f, v) ==
    /\ CanEdit /\ payload.transaction.t = "dict"
    /\ payload' = [payload EXCEPT !.txn = (f :> v) @@ @]
    /\ Edited

\* the client leaves field f out
DeleteField(f) ==
    /\ CanEdit /\ payload.transaction.t = "dict" /\ f \in DOMAIN payload.txn
    /\ payload' = [payload EXCEPT !.txn = [k \in (DOMAIN @) \ {f} |-> @[k]]]
    /\ Edited

\* the client adds a key the schema does not know
AddExtraField ==
    /\ CanEdit /\ payload.transaction.t = "dict" /\ ExtraKey \notin DOMAIN payload.txn
    /\ payload' = [payload EXCEPT !.txn = (ExtraKey :> Str(<<" ","H","i">>)) @@ @]
    /\ Edited

SetRequestId(v) ==
    /\ CanEdit /\ payload.request_id = Absent
    /\ payload' = [payload EXCEPT !.request_id = v]
    /\ Edited

\* the envelope has no "transaction" key, or one that is not an object
SetTransaction(v) ==
    /\ CanEdit /\ payload.transaction.t = "dict"
    /\ payload' = [payload EXCEPT !.transaction = v, !.txn = EmptyTxn]
    /\ Edited

\* the body decodes to something that is not an object
SetPayloadType(t) ==
    /\ CanEdit
    /\ payload' = Envelope(t, Absent, Absent, EmptyTxn)
    /\ Edited

\* validate_request(payload); the zone of the process is fixed from its first
\* (and, in a behaviour, only) look at the clock on
CallValidate ==
    /\ pc = "client"
    /\ \E u \in Uuid4, off \in LocalUtcOffsets :
         /\ tz' = off
         /\ vres' = validate_request(payload, u, off)
    /\ pc' = "validated"
    /\ UNCHANGED <<payload, edits, prevNorm, sres, _CACHED_PARAMS, tmpFile>>
    /\ UNCHANGED <<loadVars, reads, assigns>>

\* validate_request on an envelope whose transaction is the normalized record
CallRevalidate ==
    /\ pc = "validated" /\ vres.status = "returned" /\ vres.is_valid
    /\ prevNorm' = vres.normalized_transaction
    /\ payload' = [payload EXCEPT !.txn = vres.normalized_transaction]
    /\ \E u \in Uuid4 : vres' = validate_request(payload', u, tz)
    /\ pc' = "revalidated"
    /\ UNCHANGED <<tz, edits, sres, _CACHED_PARAMS, tmpFile>>
    /\ UNCHANGED <<loadVars, reads, assigns>>

\* score_transaction_request(payload); load_scoring_parameters is called only
\* once the transaction has been found to be an object
CallScore ==
    /\ pc \in {"client", "scored"}
    /\ \E u \in Uuid4, env \in EnvironmentsFor(_CACHED_PARAMS) :
         LET called == payload.t = "dict" /\ payload.transaction.t = "dict"
             loaded == load_scoring_parameters(_CACHED_PARAMS, tmpFile, env)
         IN  /\ sres' = score_transaction_request(payload, u, loaded)
             /\ _CACHED_PARAMS' = IF called THEN loaded.cache ELSE _CACHED_PARAMS
             /\ tmpFile' = IF called THEN loaded.tmp ELSE tmpFile
             /\ LET read == called /\ _CACHED_PARAMS = None /\ loaded.exc = ""
                IN  /\ reads' = IF read THEN reads + 1 ELSE reads
                    /\ assigns' = IF read THEN assigns + 1 ELSE assigns
    /\ pc' = "scored"
    /\ UNCHANGED <<payload, tz, edits, vres, prevNorm, loadVars>>

Next ==
    \/ \E i \in 1..Len(_REQUIRED_TRANSACTION_FIELDS) :
         \E v \in FieldInputs(_REQUIRED_TRANSACTION_FIELDS[i]) :
            EditField(_REQUIRED_TRANSACTION_FIELDS[i], v)
    \/ \E f \in RequiredSet : DeleteField(f)
    \/ AddExtraField
    \/ \E v \in RequestIdInputs : SetRequestId(v)
    \/ \E v \in TransactionInputs : SetTransaction(v)
    \/ \E t \in PayloadTypes : SetPayloadType(t)
    \/ CallValidate
    \/ CallRevalidate
    \/ CallScore

Spec == Init /\ [][Next]_vars

-----------------------------------------------------------------------------
(* load_scoring_parameters called by several threads of one process.  Each   *)
(* caller goes through the function a statement at a time; the interpreter    *)
(* may switch threads between any two of the steps below.                     *)

InitLoad ==
    /\ payload = SamplePayload
    /\ tz = 0
    /\ pc = "client"
    /\ edits = 0
    /\ vres = NoResult
    /\ prevNorm = None
    /\ sres = NoScore
    /\ _CACHED_PARAMS = None
    /\ tmpFile = None
    /\ loadEnv \in LoadEnvironments
    /\ LoadersIdle

\* lines 36-38: if _CACHED_PARAMS is not None: return _CACHED_PARAMS
LoadCheck(t) ==
    /\ lpc[t] = "idle"
    /\ IF _CACHED_PARAMS # None
       THEN /\ lret' = [lret EXCEPT ![t] = _CACHED_PARAMS]
            /\ lpc' = [lpc EXCEPT ![t] = "done"]
       ELSE /\ lpc' = [lpc EXCEPT ![t] = "resolve"]
            /\ UNCHANGED lret
    /\ UNCHANGED <<requestVars, _CACHED_PARAMS, tmpFile, loadEnv, lval, reads, assigns>>

\* lines 40-46 and 50-53: choose the source; download it to /tmp if the
\* bucket is configured and the file is not there; raise if there is none
LoadResolve(t) ==
    /\ lpc[t] = "resolve"
    /\ IF loadEnv.bucket_and_key
       THEN IF tmpFile = None /\ ~loadEnv.downloadable
            THEN /\ lpc' = [lpc EXCEPT ![t] = "raised"]
                 /\ UNCHANGED tmpFile
            ELSE /\ tmpFile' = IF tmpFile = None THEN loadEnv.content ELSE tmpFile
                 /\ lpc' = [lpc EXCEPT ![t] = "read"]
       ELSE /\ lpc' = [lpc EXCEPT ![t] = IF loadEnv.local_exists THEN "read" ELSE "raised"]
            /\ UNCHANGED tmpFile
    /\ UNCHANGED <<requestVars, _CACHED_PARAMS, loadEnv, lval, lret, reads, assigns>>

\* the right-hand side of lines 47 and 55: json.loads(path.read_text(...))
LoadRead(t) ==
    /\ lpc[t] = "read"
    /\ lval' = [lval EXCEPT ![t] = IF loadEnv.bucket_and_key THEN tmpFile ELSE loadEnv.content]
    /\ reads' = reads + 1
    /\ lpc' = [lpc EXCEPT ![t] = "assign"]
    /\ UNCHANGED <<requestVars, _CACHED_PARAMS, tmpFile, loadEnv, lret, assigns>>

\* the assignment of lines 47 and 55: _CACHED_PARAMS = ...
LoadAssign(t) ==
    /\ lpc[t] = "assign"
    /\ _CACHED_PARAMS' = lval[t]
    /\ assigns' = assigns + 1
    /\ lpc' = [lpc EXCEPT ![t] = "return"]
    /\ UNCHANGED <<requestVars, tmpFile, loadEnv, lval, lret, reads>>

\* lines 48 and 56: return _CACHED_PARAMS
LoadReturn(t) ==
    /\ lpc[t] = "return"
    /\ lret' = [lret EXCEPT ![t] = _CACHED_PARAMS]
    /\ lpc' = [lpc EXCEPT ![t] = "done"]
    /\ UNCHANGED <<requestVars, _CACHED_PARAMS, tmpFile, loadEnv, lval, reads, assigns>>

NextLoad ==
    \/ \E t \in Loaders : LoadCheck(t)
    \/ \E t \in Loaders : LoadResolve(t)
    \/ \E t \in Loaders : LoadRead(t)
    \/ \E t \in Loaders : LoadAssign(t)
    \/ \E t \in Loaders : LoadReturn(t)

SpecLoad == InitLoad /\ [][NextLoad]_vars

-----------------------------------------------------------------------------
(* Properties of validate_request *)

\* validate_request has been called on payload and vres is its outcome
Validated == pc \in {"validated", "revalidated"}

\* the envelope is an object whose transaction is an object
HasTransaction == payload.t = "dict" /\ payload.transaction.t = "dict"

MissingFields(txn) == { f \in RequiredSet : f \notin DOMAIN txn }

MissingItem(f) ==
    [field |-> "transaction." \o f, message |-> "Missing required field: " \o f]

ErrorsFor(errors, f) == { i \in 1..Len(errors) : errors[i].field = "transaction." \o f }

\* C1: a transaction that lacks required fields is answered with is_valid = false
\* and exactly one "Missing required field" entry per missing field, and with
\* nothing else: no entry about the content of a field that is present.
C1_MissingFieldsOnly ==
    (Validated /\ HasTransaction /\ MissingFields(payload.txn) # {}) =>
        /\ vres.status = "returned"
        /\ ~vres.is_valid
        /\ Len(vres.validation_errors) = Cardinality(MissingFields(payload.txn))
        /\ \A f \in MissingFields(payload.txn) :
             \E i \in 1..Len(vres.validation_errors) : vres.validation_errors[i] = MissingItem(f)
        /\ \A i \in 1..Len(vres.validation_errors) :
             \E f \in MissingFields(payload.txn) : vres.validation_errors[i] = MissingItem(f)

\* a field is missing and a field that is present has a value that is
\* reported when nothing is missing
W_C1_MissingAndInvalid ==
    /\ pc = "validated" /\ HasTransaction
    /\ Cardinality(MissingFields(payload.txn)) = 1
    /\ Len(vres.validation_errors) = 1
    /\ \E f \in (DOMAIN payload.txn) \cap RequiredSet :
         _normalize_and_validate_transaction([SampleTxn EXCEPT ![f] = payload.txn[f]], tz).errors
           # << >>

\* whether field f with value v is reported when every other field is valid
FailsAlone(f, v) ==
    _normalize_and_validate_transaction([SampleTxn EXCEPT ![f] = v], tz).errors # << >>

ApplyCheck(f, st) ==
    CASE f = "transaction_id"        -> check_transaction_id(st)
      [] f = "event_time_utc"        -> check_event_time_utc(st, tz)
      [] f = "amount"                -> check_amount(st)
      [] f = "currency"              -> check_currency(st)
      [] f = "merchant_category"     -> check_merchant_category(st)
      [] f = "channel"               -> check_channel(st)
      [] f = "country"               -> check_country(st)
      [] f = "customer_age"          -> check_customer_age(st)
      [] f = "account_age_days"      -> check_account_age_days(st)
      [] f = "transactions_last_24h" -> check_transactions_last_24h(st)
      [] f = "avg_amount_last_7d"    -> check_avg_amount_last_7d(st)
      [] f = "is_international"      -> check_is_international(st)

\* the twelve blocks run last field first, from position i down
RECURSIVE ChecksBackwards(_, _)
ChecksBackwards(st, i) ==
    IF i = 0 THEN st
    ELSE ChecksBackwards(ApplyCheck(_REQUIRED_TRANSACTION_FIELDS[i], st), i - 1)

\* C2: with all required fields present, a field has exactly one entry in
\* validation_errors if its own value fails its type check or its constraint
\* and none otherwise, whatever the other fields hold; and the number of
\* entries is the one the checks give when run in the opposite order.
C2_IndependentChecks ==
    (Validated /\ HasTransaction /\ MissingFields(payload.txn) = {}) =>
        /\ vres.status = "returned"
        /\ \A f \in RequiredSet :
             Cardinality(ErrorsFor(vres.validation_errors, f))
               = IF FailsAlone(f, payload.txn[f]) THEN 1 ELSE 0
        /\ \A i \in 1..Len(vres.validation_errors) :
             \E f \in RequiredSet : i \in ErrorsFor(vres.validation_errors, f)
        /\ Len(vres.validation_errors)
             = Len(ChecksBackwards([normalized |-> payload.txn, errors |-> << >>],
                                   Len(_REQUIRED_TRANSACTION_FIELDS)).errors)

\* two fields fail at once, the last one checked among them
W_C2_TwoViolations ==
    /\ pc = "validated" /\ HasTransaction /\ MissingFields(payload.txn) = {}
    /\ Len(vres.validation_errors) = 2
    /\ vres.validation_errors[2].field = "transaction.is_international"

\* C3: in every result, is_valid holds exactly when validation_errors is empty,
\* and normalized_transaction is there exactly when is_valid holds.
C3_ValidIffNoErrors ==
    (Validated /\ vres.status = "returned") =>
        /\ vres.is_valid <=> (vres.validation_errors = << >>)
        /\ (vres.normalized_transaction # None) <=> vres.is_valid

\* a valid request: no error and a normalized record with the case rules applied
W_C3_ValidResult ==
    /\ pc = "validated" /\ vres.status = "returned"
    /\ vres.is_valid /\ vres.validation_errors = << >>
    /\ vres.normalized_transaction # None
    /\ vres.normalized_transaction["currency"] = Str(<<"C","A","D">>)

\* C4: an envelope that is not an object is answered with a result that has
\* is_valid = false and exactly one entry, not with an exception.
C4_NonObjectEnvelope ==
    (Validated /\ payload.t # "dict") =>
        /\ vres.status = "returned"
        /\ ~vres.is_valid
        /\ Len(vres.validation_errors) = 1

\* C5: an envelope object without "transaction", or with one that is not an
\* object, is answered with exactly one entry, on field "transaction",
\* is_valid = false and no normalized record, whatever else it holds.
C5_TransactionShape ==
    (Validated /\ payload.t = "dict" /\ payload.transaction.t # "dict") =>
        /\ vres.status = "returned"
        /\ ~vres.is_valid
        /\ vres.normalized_transaction = None
        /\ Len(vres.validation_errors) = 1
        /\ vres.validation_errors[1].field = "transaction"

\* "transaction" is null and the envelope carries a request_id as well
W_C5_NullTransaction ==
    /\ pc = "validated" /\ payload.t = "dict"
    /\ payload.transaction = Null /\ IsStr(payload.request_id)
    /\ vres.validation_errors =
         << [field |-> "transaction", message |-> "transaction must be an object"] >>

\* C6: the keys of a normalized record are the twelve required fields and
\* no other.
C6_ExactKeySet ==
    (Validated /\ vres.status = "returned" /\ vres.normalized_transaction # None) =>
        DOMAIN vres.normalized_transaction = RequiredSet

IsTrimmed(s) == strip(s) = s

\* C7: every value of a normalized record has its target type and domain; a
\* bool is not an integer.
C7_TypedValues ==
    (Validated /\ vres.status = "returned" /\ vres.normalized_transaction # None) =>
        LET n == vres.normalized_transaction
        IN  /\ n["amount"].t \in {"int", "float"} /\ n["amount"].d # 0 /\ n["amount"].n > 0
            /\ n["avg_amount_last_7d"].t \in {"int", "float"}
            /\ n["avg_amount_last_7d"].d # 0 /\ n["avg_amount_last_7d"].n >= 0
            /\ n["customer_age"].t = "int"
            /\ n["customer_age"].n >= 13 /\ n["customer_age"].n <= 120
            /\ n["account_age_days"].t = "int" /\ n["account_age_days"].n >= 0
            /\ n["transactions_last_24h"].t = "int" /\ n["transactions_last_24h"].n >= 0
            /\ n["is_international"].t = "bool"
            /\ IsStr(n["currency"]) /\ _CURRENCY_RE(n["currency"].s)
            /\ IsStr(n["country"]) /\ _COUNTRY_RE(n["country"].s)
            /\ IsStr(n["channel"]) /\ n["channel"].s \in _ALLOWED_CHANNELS
            /\ IsStr(n["merchant_category"]) /\ n["merchant_category"].s # << >>
            /\ IsTrimmed(n["merchant_category"].s)
            /\ lower(n["merchant_category"].s) = n["merchant_category"].s
            /\ IsStr(n["transaction_id"]) /\ n["transaction_id"].s # << >>
            /\ IsTrimmed(n["transaction_id"].s)

\* C8: validating the normalized record of a valid request again gives
\* is_valid = true, no entry, and the same normalized record.
C8_Idempotent ==
    pc = "revalidated" =>
        /\ vres.status = "returned"
        /\ vres.is_valid
        /\ vres.validation_errors = << >>
        /\ vres.normalized_transaction = prevNorm

\* the record fed back had its timestamp moved to UTC and its text recased
W_C8_Revalidated ==
    /\ pc = "revalidated"
    /\ tz = 1
    /\ prevNorm["event_time_utc"] = Str(<< "2026-01-05T20:15:00", "Z" >>)
    /\ prevNorm["channel"] = Str(S_atm)
    /\ vres.normalized_transaction = prevNorm

-----------------------------------------------------------------------------
(* Properties of both flows *)

RequestIdRule(request_id) ==
    /\ IsStr(request_id)
    /\ IsStr(payload.request_id) => request_id = payload.request_id
    /\ ~IsStr(payload.request_id) => request_id \in Uuid4

\* C9: every result carries a request_id, which is the envelope's request_id
\* whenever that is a string and a generated one otherwise.
C9_RequestIdEcho ==
    /\ (Validated /\ payload.t = "dict") =>
          vres.status = "returned" /\ RequestIdRule(vres.request_id)
    /\ (pc = "scored" /\ sres.status = "returned") => RequestIdRule(sres.request_id)

-----------------------------------------------------------------------------
(* Properties of score_transaction_request *)

\* C10: under an artifact whose coefficients are as many as its numeric
\* features plus its vocabulary entries, the vector built for any transaction
\* object is as long as the coefficients, and the result is never the
\* "Feature length mismatch" error.
C10_VectorLength ==
    (pc = "scored" /\ sres.status = "returned" /\ HasTransaction
       /\ ArtifactInvariant(_CACHED_PARAMS)) =>
        /\ Len(_build_feature_vector(payload.txn, _CACHED_PARAMS))
             = Len(_CACHED_PARAMS.coefficients)
        /\ ~sres.error.present

\* a transaction with a value outside the vocabulary and a field left out,
\* scored under the artifact with three categorical features
W_C10_UnknownCategory ==
    /\ pc = "scored" /\ sres.status = "returned" /\ HasTransaction
    /\ _CACHED_PARAMS = ArtifactFull
    /\ "channel" \in DOMAIN payload.txn /\ payload.txn["channel"] = Str(<<"w","i","r","e">>)
    /\ "amount" \notin DOMAIN payload.txn
    /\ ~sres.error.present


\* the scored transaction and the parameters it was scored under
Scored == pc = "scored" /\ sres.status = "returned" /\ HasTransaction

\* equality of two JSON values of the same type
SameTypeEq(a, b) == a.t = b.t /\ PyEq(a, b)

\* the block of a categorical feature: 1.0 where the normalized value and the
\* vocabulary entry are the same value of the same type
TypedBlock(val, cats) == [j \in 1..Len(cats) |-> IF SameTypeEq(val, cats[j]) THEN One ELSE Zero]

RECURSIVE TypedBlocks(_, _, _)
TypedBlocks(txn, params, i) ==
    IF i > Len(params.categorical_features) THEN << >>
    ELSE LET f == params.categorical_features[i]
             cats == IF f \in DOMAIN params.one_hot_categories
                     THEN params.one_hot_categories[f] ELSE << >>
         IN  TypedBlock(NormalizeCategorical(f, Get(txn, f, None)), cats)
             \o TypedBlocks(txn, params, i + 1)

\* C11: the vector is the numeric block followed by the categorical blocks in
\* declared order; in a block, entry j is 1.0 exactly when the normalized
\* value is vocabulary entry j, and a value outside the vocabulary, a missing
\* field or a value of another type than the entries gives an all-zero block.
C11_OneHotBlocks ==
    Scored =>
        _build_feature_vector(payload.txn, _CACHED_PARAMS)
          = NumericBlock(payload.txn, _CACHED_PARAMS, 1) \o TypedBlocks(payload.txn, _CACHED_PARAMS, 1)


\* C12 as stated: a result with an error has fraud_probability, fraud_label
\* and decision_threshold all null.
C12_ErrorNullsAll ==
    (pc = "scored" /\ sres.status = "returned" /\ sres.error.present) =>
        /\ sres.fraud_probability = None
        /\ sres.fraud_label = None
        /\ sres.decision_threshold = None

\* C12 as amended: a result with an error has fraud_probability and
\* fraud_label null; decision_threshold is null when "transaction" is missing
\* or not an object, and is the artifact's threshold when the lengths differ.
C12_ErrorNulls ==
    (pc = "scored" /\ sres.status = "returned" /\ sres.error.present) =>
        /\ sres.fraud_probability = None
        /\ sres.fraud_label = None
        /\ ~HasTransaction =>
             /\ sres.error.message = "Missing or invalid 'transaction' object"
             /\ sres.decision_threshold = None
        /\ HasTransaction =>
             /\ sres.error.message = "Feature length mismatch"
             /\ sres.error.got = Len(_build_feature_vector(payload.txn, _CACHED_PARAMS))
             /\ sres.error.expected = Len(_CACHED_PARAMS.coefficients)
             /\ sres.error.got # sres.error.expected
             /\ sres.decision_threshold = ToFloat(_CACHED_PARAMS.decision_threshold)

\* the length-mismatch error: three vector entries against two coefficients
W_C12_LengthMismatch ==
    /\ pc = "scored" /\ sres.status = "returned" /\ HasTransaction
    /\ sres.error = ErrorText("Feature length mismatch", 4, 2)
    /\ sres.fraud_label = None


\* what numeric feature i contributes for the value x: (x - mean[i]) / scale[i],
\* or 0.0 when scale[i] is 0
Contribution(params, i, x) ==
    IF ToFloat(params.scale[i]) = Zero THEN Zero
    ELSE Frac((x.n * ToFloat(params.mean[i]).d - ToFloat(params.mean[i]).n * x.d)
                * ToFloat(params.scale[i]).d,
              x.d * ToFloat(params.mean[i]).d * ToFloat(params.scale[i]).n)

\* the value of numeric feature i in the transaction (Absent: no such key)
NumericInput(txn, params, i) == Get(txn, params.numeric_features[i], Absent)

\* float(v) raises: null, a list, an object, text that spells no number
FloatRejects(v) ==
    \/ v.t \in {"NoneType", "list", "dict"}
    \/ IsStr(v) /\ ~IsNumericText(v.s)

\* C14 as stated: a transaction object is scored without an error, and a
\* numeric feature whose field is missing or holds a string, a boolean, null
\* or a list contributes as the value 0.0 does.
C14_DefaultsToZero ==
    (Scored /\ ArtifactInvariant(_CACHED_PARAMS)) =>
        /\ ~sres.error.present
        /\ \A i \in 1..Len(_CACHED_PARAMS.numeric_features) :
             NumericInput(payload.txn, _CACHED_PARAMS, i).t
                 \in {"absent", "str", "bool", "NoneType", "list"}
               => _build_feature_vector(payload.txn, _CACHED_PARAMS)[i]
                    = Contribution(_CACHED_PARAMS, i, Zero)

\* C14 as amended: under an artifact that keeps the length invariant a
\* transaction object is scored without an error; a numeric feature whose
\* field is missing or holds a value float() rejects contributes as 0.0 does,
\* a boolean contributes as 1.0 or 0.0 and text that spells a number as that
\* number.
C14_DefaultsWhatFloatRejects ==
    (Scored /\ ArtifactInvariant(_CACHED_PARAMS)) =>
        /\ ~sres.error.present
        /\ \A i \in 1..Len(_CACHED_PARAMS.numeric_features) :
             LET v == NumericInput(payload.txn, _CACHED_PARAMS, i)
                 x == _build_feature_vector(payload.txn, _CACHED_PARAMS)[i]
             IN  /\ (v = Absent \/ FloatRejects(v)) => x = Contribution(_CACHED_PARAMS, i, Zero)
                 /\ IsBool(v) => x = Contribution(_CACHED_PARAMS, i, IF v.b THEN One ELSE Zero)
                 /\ (IsStr(v) /\ IsNumericText(v.s))
                      => x = Contribution(_CACHED_PARAMS, i, FloatV(DecimalValue(strip(v.s)), 1))

\* a transaction validate_request rejects, scored all the same: amount is
\* left out and avg_amount_last_7d is text that spells no number
W_C14_MissingAndText ==
    /\ Scored /\ _CACHED_PARAMS = ArtifactFull /\ ~sres.error.present
    /\ "amount" \notin DOMAIN payload.txn
    /\ "avg_amount_last_7d" \in DOMAIN payload.txn
    /\ payload.txn["avg_amount_last_7d"] = Str(<<"n","a">>)
    /\ _build_feature_vector(payload.txn, _CACHED_PARAMS)[1] = FloatV(-2, 1)
    /\ _build_feature_vector(payload.txn, _CACHED_PARAMS)[3] = FloatV(-4, 1)


-----------------------------------------------------------------------------
(* Properties of load_scoring_parameters *)

\* C13: whatever the interleaving of the first calls, an artifact file is
\* read at most once and _CACHED_PARAMS assigned at most once, and every
\* caller that has returned holds the artifact that is cached.
C13_InitialisedOnce ==
    /\ reads <= 1
    /\ assigns <= 1
    /\ \A t \in Loaders : lpc[t] = "done" => lret[t] # None /\ lret[t] = _CACHED_PARAMS

====
